---- MODULE Spec2Model ----
(***************************************************************************)
(* A model of scripts/zonaprop_to_sheets.py: the resilient fetcher, the    *)
(* acceptance policy (strict_ok), the ledger reconciler (upsert_master,    *)
(* upsert_revisar) and the run orchestrator (main).                        *)
(*                                                                         *)
(* The specifications share the variables:                                 *)
(*   Spec           repeated runs of main against the ledger store         *)
(*   SpecPolicy     strict_ok applied to one extracted record              *)
(*   SpecLedger     sequences of completed upsert_master / upsert_revisar  *)
(*   SpecFetch      one call of fetch against an arbitrary server          *)
(*   SpecDiscovery  one call of get_urls_from_sitemaps against a site      *)
(*   SpecNotify     the loop of main as far as the notification goes       *)
(*   SpecProgress   runs of main repeated for ever against a fixed site    *)
(*   SpecTables     Spec and SpecLedger side by side                       *)
(***************************************************************************)
EXTENDS Integers, Sequences, FiniteSets, TLC

VARIABLES
    pc,                    \* position of the process in the code
    \* ---- configuration read from the environment
    SHEET_ID,              \* TRUE iff the SHEET_ID variable is set
    MAX_NEW_URLS_PER_RUN,  \* per-run budget
    \* ---- the ledger store (three worksheets; <<>> = worksheet absent)
    ws_master, ws_revisar, ws_log,
    \* ---- locals of main
    ts, existing_master, existing_revisar, all_urls, new_urls, idx,
    added_master, added_revisar, errors, telegram_items,
    d, ok, reason,         \* extracted record and strict_ok's result
    upd,                   \* locals of an upsert between its two range writes
    \* ---- observers of one run of main
    runs,                  \* number of runs started
    http,                  \* HTTP requests were issued in this run
    log0,                  \* Len(ws_log) when the run started
    created,               \* worksheets connect_sheet created in this run
    discovered,            \* the run got past discovery
    notified,              \* messages handed to telegram_send in this run
    raised,                \* positions in new_urls whose processing raised
    \* ---- SpecLedger: the completed calls, in order
    calls,
    \* ---- SpecFetch: locals of fetch and the responses it has seen
    attempt, last, resps, sleeps,
    \* ---- the site: the documents it serves, the urls whose page never loads
    web, failing,
    \* ---- SpecDiscovery: parameter and locals of get_urls_from_sitemaps
    limit_sitemaps, sitemap_urls,
    collected,             \* urls of collect_urls_from_sitemaps
    via                    \* the source the sub-sitemaps were taken from

runVars == <<SHEET_ID, MAX_NEW_URLS_PER_RUN, existing_master,
             existing_revisar, all_urls, new_urls, idx, added_master,
             added_revisar, errors, telegram_items, upd, runs, http, log0,
             created, discovered, notified, raised>>
storeVars == <<ws_master, ws_revisar, ws_log>>
polVars == <<d, ok, reason>>
fetchVars == <<attempt, last, resps, sleeps>>
siteVars == <<web, failing>>
discVars == <<limit_sitemaps, sitemap_urls, collected, via>>
vars == <<pc, ts, runVars, storeVars, polVars, calls, fetchVars, siteVars,
          discVars>>

-----------------------------------------------------------------------------
(* Values *)

\* Python's None in an optional integer field (the fields are non-negative).
None == -1

Min(a, b) == IF a <= b THEN a ELSE b
Max(a, b) == IF a >= b THEN a ELSE b
SetMin(S) == CHOOSE x \in S : \A y \in S : x <= y
SetMax(S) == CHOOSE x \in S : \A y \in S : x >= y

-----------------------------------------------------------------------------
(* Configuration defaults *)

MAX_USD == 121000
MAX_EXP == 120000
MIN_AMB == 2

-----------------------------------------------------------------------------
(* URLs are strings: sequences of characters.                              *)

\* Code points of the characters used, for Python's string order.
Code(c) ==
    CASE c = " " -> 32
      [] c = "?" -> 63
      [] c = "a" -> 97
      [] c = "b" -> 98
      [] c = "c" -> 99
      [] c = "l" -> 108
      [] c = "r" -> 114
      [] c = "u" -> 117
      [] c = "x" -> 120
      [] c = "y" -> 121

\* s < t in Python's lexicographic order on strings.
RECURSIVE StrLess(_, _)
StrLess(s, t) ==
    IF t = <<>> THEN FALSE
    ELSE IF s = <<>> THEN TRUE
    ELSE IF Code(Head(s)) # Code(Head(t)) THEN Code(Head(s)) < Code(Head(t))
    ELSE StrLess(Tail(s), Tail(t))

\* sorted(urls) of a set of strings.
RECURSIVE Sorted(_)
Sorted(S) ==
    IF S = {} THEN <<>>
    ELSE LET m == CHOOSE x \in S : \A y \in S \ {x} : StrLess(x, y)
         IN  <<m>> \o Sorted(S \ {m})

\* url.split("?")[0]: the text before the first "?".
RECURSIVE SplitHead(_)
SplitHead(s) ==
    IF s = <<>> \/ Head(s) = "?" THEN <<>>
    ELSE <<Head(s)>> \o SplitHead(Tail(s))

\* str.strip(): leading and trailing blanks removed.
RECURSIVE Strip(_)
Strip(s) ==
    IF s = <<>> THEN s
    ELSE IF Head(s) = " " THEN Strip(Tail(s))
    ELSE IF s[Len(s)] = " " THEN Strip(SubSeq(s, 1, Len(s) - 1))
    ELSE s

normalize_url(url) == Strip(SplitHead(url))

-----------------------------------------------------------------------------
(* Sitemap discovery: the documents of the site and their parsing.         *)

\* str.lower() on the characters used.
LowerChar(c) ==
    CASE c = "S" -> "s"
      [] c = "I" -> "i"
      [] c = "T" -> "t"
      [] c = "E" -> "e"
      [] c = "M" -> "m"
      [] c = "A" -> "a"
      [] c = "P" -> "p"
      [] OTHER -> c

Lower(s) == [k \in 1..Len(s) |-> LowerChar(s[k])]

\* word in s
Contains(s, word) ==
    \E k \in 1..(Len(s) - Len(word) + 1) :
        SubSeq(s, k, k + Len(word) - 1) = word

\* s.startswith(word)
StartsWith(s, word) ==
    Len(s) >= Len(word) /\ SubSeq(s, 1, Len(word)) = word

\* s.split(":", 1)[1]: the text after the first ":" (s has one).
RECURSIVE AfterColon(_)
AfterColon(s) ==
    IF Head(s) = ":" THEN Tail(s) ELSE AfterColon(Tail(s))

SitemapWord == <<"s", "i", "t", "e", "m", "a", "p">>

\* What fetch meets at an address: it raises (served = FALSE) or returns a
\* text with the given root element whose entries have the given <loc>
\* texts; the root "malformed" is a text ET.fromstring rejects.
Document(served, root, locs) ==
    [served |-> served, root |-> root, locs |-> locs]

Unserved == Document(FALSE, "", <<>>)

\* parse_sitemap of a served document.
parse_sitemap(doc) ==
    CASE doc.root = "malformed" ->
            [raises |-> TRUE, kind |-> "", items |-> <<>>]
      [] doc.root = "sitemapindex" ->
            [raises |-> FALSE, kind |-> "index",
             items |-> [k \in 1..Len(doc.locs) |-> Strip(doc.locs[k])]]
      [] doc.root = "urlset" ->
            [raises |-> FALSE, kind |-> "urlset",
             items |-> [k \in 1..Len(doc.locs) |-> Strip(doc.locs[k])]]
      [] OTHER ->
            [raises |-> FALSE, kind |-> "unknown", items |-> <<>>]

\* sitemaps_from_robots only the lower-case spelling of the field.
RECURSIVE sitemaps_from_robots_case_sensitive(_)
sitemaps_from_robots_case_sensitive(lines) ==
    IF lines = <<>> THEN <<>>
    ELSE (IF StartsWith(Head(lines), SitemapWord \o <<":">>)
          THEN <<Strip(AfterColon(Head(lines)))>> ELSE <<>>)
         \o sitemaps_from_robots_case_sensitive(Tail(lines))

\* sitemaps_from_robots of the lines of robots.txt.
RECURSIVE sitemaps_from_robots(_)
sitemaps_from_robots(lines) ==
    IF lines = <<>> THEN <<>>
    ELSE (IF StartsWith(Lower(Head(lines)), SitemapWord \o <<":">>)
          THEN <<Strip(AfterColon(Head(lines)))>> ELSE <<>>)
         \o sitemaps_from_robots(Tail(lines))

\* candidates of get_urls_from_sitemaps: the entries naming a sitemap.
sitemap_candidates(sitemaps) ==
    SelectSeq(sitemaps, LAMBDA l : Contains(Lower(l), SitemapWord))

\* s[:n]
Take(s, n) == SubSeq(s, 1, Min(n, Len(s)))

\* A site none of whose documents is served.
NoWeb == [index |-> Unserved, robots |-> Unserved, child |-> <<>>]

-----------------------------------------------------------------------------
(* Acceptance policy *)

RuleReason ==
    <<"Falta barrio", "Ambientes no cumple / falta", "Precio no cumple / falta",
      "Faltan expensas (REVISAR)", "Expensas > tope">>

\* strict_ok with the price rule tested before the rooms rule.
strict_ok_swapped(r) ==
    IF r.barrio = "" THEN [ok |-> FALSE, reason |-> RuleReason[1]]
    ELSE IF r.price_usd = None \/ r.price_usd > MAX_USD
        THEN [ok |-> FALSE, reason |-> RuleReason[3]]
    ELSE IF r.ambientes = None \/ r.ambientes < MIN_AMB
        THEN [ok |-> FALSE, reason |-> RuleReason[2]]
    ELSE IF r.expensas_ars = None THEN [ok |-> FALSE, reason |-> RuleReason[4]]
    ELSE IF r.expensas_ars > MAX_EXP THEN [ok |-> FALSE, reason |-> RuleReason[5]]
    ELSE [ok |-> TRUE, reason |-> "OK"]

\* strict_ok with the price limit exclusive.
strict_ok_exclusive(r) ==
    IF r.barrio = "" THEN [ok |-> FALSE, reason |-> RuleReason[1]]
    ELSE IF r.ambientes = None \/ r.ambientes < MIN_AMB
        THEN [ok |-> FALSE, reason |-> RuleReason[2]]
    ELSE IF r.price_usd = None \/ r.price_usd >= MAX_USD
        THEN [ok |-> FALSE, reason |-> RuleReason[3]]
    ELSE IF r.expensas_ars = None THEN [ok |-> FALSE, reason |-> RuleReason[4]]
    ELSE IF r.expensas_ars > MAX_EXP THEN [ok |-> FALSE, reason |-> RuleReason[5]]
    ELSE [ok |-> TRUE, reason |-> "OK"]

strict_ok(r) ==
    IF r.barrio = "" THEN [ok |-> FALSE, reason |-> RuleReason[1]]
    ELSE IF r.ambientes = None \/ r.ambientes < MIN_AMB
        THEN [ok |-> FALSE, reason |-> RuleReason[2]]
    ELSE IF r.price_usd = None \/ r.price_usd > MAX_USD
        THEN [ok |-> FALSE, reason |-> RuleReason[3]]
    ELSE IF r.expensas_ars = None THEN [ok |-> FALSE, reason |-> RuleReason[4]]
    ELSE IF r.expensas_ars > MAX_EXP THEN [ok |-> FALSE, reason |-> RuleReason[5]]
    ELSE [ok |-> TRUE, reason |-> "OK"]

\* The record extract_metrics returns.
Record(title, amb, price, exp, barrio, tipo, balcon) ==
    [title |-> title, ambientes |-> amb, price_usd |-> price,
     expensas_ars |-> exp, barrio |-> barrio, tipo |-> tipo,
     balcon_patio |-> balcon]

NoRecord == Record("", None, None, None, "", "", "")

\* The records strict_ok is applied to in SpecPolicy: every field absent,
\* at, just inside and just outside its limit.
PolicyRecords ==
    { Record("t", amb, price, exp, barrio, "Depto", "N") :
        amb \in {None, MIN_AMB - 1, MIN_AMB, MIN_AMB + 1},
        price \in {None, 90000, MAX_USD - 1, MAX_USD, MAX_USD + 1},
        exp \in {None, 50000, MAX_EXP, MAX_EXP + 1},
        barrio \in {"", "belgrano"} }

-----------------------------------------------------------------------------
(* The ledger store: a worksheet is the sequence of its rows, row 1 the    *)
(* header; a row is the tuple of its cells.                                *)

URL_HEADER == <<"u", "r", "l">>

master_headers ==
    <<URL_HEADER, "portal", "barrio", "tipo", "ambientes", "price_usd",
      "expensas_ars", "balcon_patio", "apto_credito", "title", "first_seen",
      "last_seen", "status", "price_min", "price_max", "exp_min">>

revisar_headers ==
    <<URL_HEADER, "portal", "barrio_detectado", "tipo", "ambientes",
      "price_usd", "expensas_ars", "balcon_patio", "title", "reason",
      "first_seen", "last_seen">>

log_headers ==
    <<"ts_utc", "new_urls_checked", "added_master", "added_revisar", "errors">>

\* get_or_create: the worksheet, created with its header row when absent.
get_or_create(ws, headers) == IF ws = <<>> THEN <<headers>> ELSE ws

\* ws.col_values(1)
col_values(ws) == [i \in 1..Len(ws) |-> ws[i][1]]

\* load_existing_urls: the url column without the header row.
load_existing_urls(ws) == {ws[i][1] : i \in 2..Len(ws)}

\* A lookup that sees the url only in the last row.
RowOf_last(ws, url) ==
    IF Len(ws) > 1 /\ ws[Len(ws)][1] = url THEN Len(ws) ELSE 0

\* urls.index(url) + 1: the first row holding url; 0 stands for ValueError.
RowOf(ws, url) ==
    LET hits == {i \in 1..Len(ws) : col_values(ws)[i] = url}
    IN  IF hits = {} THEN 0 ELSE SetMin(hits)

\* The text the store returns for a numeric cell: its decimal digits; the
\* empty text for an empty cell.
RECURSIVE Digits(_)
Digits(n) == IF n < 10 THEN <<n>> ELSE Append(Digits(n \div 10), n % 10)

CellText(x) == IF x = None THEN <<>> ELSE Digits(x)

\* int(text) of a digit string.
RECURSIVE ParseInt(_)
ParseInt(s) ==
    IF Len(s) = 1 THEN s[1]
    ELSE 10 * ParseInt(SubSeq(s, 1, Len(s) - 1)) + s[Len(s)]

\* to_int: None when the text is not an integer.
to_int(s) == IF s = <<>> THEN None ELSE ParseInt(s)

\* ws.update of the cells from column c on in one row.
update_range(ws, row, c, vals) ==
    [ws EXCEPT ![row] =
        [k \in 1..Len(ws[row]) |->
            IF k >= c /\ k < c + Len(vals) THEN vals[k - c + 1] ELSE ws[row][k]]]

\* The row upsert_master appends for an unknown url.
master_new_row(url, r, t) ==
    <<url, "Zonaprop", r.barrio, r.tipo, r.ambientes, r.price_usd,
      r.expensas_ars, r.balcon_patio, "Validar", r.title, t, t, "Activo",
      r.price_usd, r.price_usd, r.expensas_ars>>

\* Rolling statistics that take the current value instead of min / max.
master_stats_overwrite(ws, row, r) ==
    [row |-> row, pmin |-> r.price_usd, pmax |-> r.price_usd,
     emin |-> r.expensas_ars]

\* Rolling statistics whose maximum is never raised.
master_stats_stale_max(ws, row, r) ==
    LET pmin == to_int(CellText(ws[row][14]))
        pmax == to_int(CellText(ws[row][15]))
        emin == to_int(CellText(ws[row][16]))
    IN  [row |-> row,
         pmin |-> IF pmin = None THEN r.price_usd ELSE Min(pmin, r.price_usd),
         pmax |-> IF pmax = None THEN r.price_usd ELSE pmax,
         emin |-> IF emin = None THEN r.expensas_ars
                  ELSE Min(emin, r.expensas_ars)]

\* upsert_master, update path: the rolling statistics of the row.
master_stats(ws, row, r) ==
    LET pmin == to_int(CellText(ws[row][14]))
        pmax == to_int(CellText(ws[row][15]))
        emin == to_int(CellText(ws[row][16]))
    IN  [row |-> row,
         pmin |-> IF pmin = None THEN r.price_usd ELSE Min(pmin, r.price_usd),
         pmax |-> IF pmax = None THEN r.price_usd ELSE Max(pmax, r.price_usd),
         emin |-> IF emin = None THEN r.expensas_ars
                  ELSE Min(emin, r.expensas_ars)]

\* The first range write of the update path, F:G; one that also rewrites
\* the descriptive cells C:K is master_write_FG_wide.
master_write_FG_wide(ws, row, r) ==
    update_range(ws, row, 3,
        <<r.barrio, r.tipo, r.ambientes, r.price_usd, r.expensas_ars,
          r.balcon_patio, "Validar", r.title, ws[row][12]>>)

master_write_FG(ws, row, r) ==
    update_range(ws, row, 6, <<r.price_usd, r.expensas_ars>>)

\* The second range write of the update path, L:P.
master_write_LP(ws, st, t) ==
    update_range(ws, st.row, 12, <<t, "Activo", st.pmin, st.pmax, st.emin>>)

\* A completed upsert_master call: the worksheet after it and its result.
upsert_master(ws, url, r, t) ==
    LET row == RowOf(ws, url)
    IN  IF row = 0
        THEN [ws |-> Append(ws, master_new_row(url, r, t)), res |-> "NEW"]
        ELSE [ws |-> master_write_LP(master_write_FG(ws, row, r),
                                     master_stats(ws, row, r), t),
              res |-> "UPDATED"]

\* The row upsert_revisar appends for an unknown url.
revisar_new_row(url, r, t, why) ==
    <<url, "Zonaprop", r.barrio, r.tipo, r.ambientes, r.price_usd,
      r.expensas_ars, r.balcon_patio, r.title, why, t, t>>

\* A first cell write that covers K:L and so resets first_seen too.
revisar_write_L_first(ws, row, t) == update_range(ws, row, 11, <<t, t>>)

\* The two cell writes of upsert_revisar's update path: L, then J.
revisar_write_L(ws, row, t) == update_range(ws, row, 12, <<t>>)
revisar_write_J(ws, row, why) == update_range(ws, row, 10, <<why>>)

\* A completed upsert_revisar call.
upsert_revisar(ws, url, r, t, why) ==
    LET row == RowOf(ws, url)
    IN  IF row = 0
        THEN [ws |-> Append(ws, revisar_new_row(url, r, t, why)), res |-> "NEW"]
        ELSE [ws |-> revisar_write_J(revisar_write_L(ws, row, t), row, why),
              res |-> "UPDATED"]

-----------------------------------------------------------------------------
(* Values of the variables a specification does not use.                   *)

IdleRun ==
    /\ SHEET_ID = TRUE /\ MAX_NEW_URLS_PER_RUN = 0
    /\ existing_master = {} /\ existing_revisar = {}
    /\ all_urls = <<>> /\ new_urls = <<>> /\ idx = 0
    /\ added_master = 0 /\ added_revisar = 0 /\ errors = 0
    /\ telegram_items = <<>> /\ upd = [row |-> 0]
    /\ runs = 0 /\ http = FALSE /\ log0 = 0 /\ created = {}
    /\ discovered = FALSE
    /\ notified = <<>> /\ raised = <<>>

IdleStore == ws_master = <<>> /\ ws_revisar = <<>> /\ ws_log = <<>>
IdlePolicy == d = NoRecord /\ ok = FALSE /\ reason = ""
IdleFetch == attempt = 0 /\ last = "" /\ resps = <<>> /\ sleeps = <<>>
IdleSite == web = NoWeb /\ failing = {}
IdleDiscovery ==
    limit_sitemaps = 0 /\ sitemap_urls = <<>> /\ collected = {} /\ via = ""

-----------------------------------------------------------------------------
(* SpecPolicy: strict_ok applied to one record.                            *)

InitPolicy ==
    /\ pc = "evaluate"
    /\ d \in PolicyRecords /\ ok = FALSE /\ reason = ""
    /\ ts = 0 /\ calls = <<>>
    /\ IdleRun /\ IdleStore /\ IdleFetch /\ IdleSite /\ IdleDiscovery

Evaluate ==
    /\ pc = "evaluate"
    /\ ok' = strict_ok(d).ok
    /\ reason' = strict_ok(d).reason
    /\ pc' = "evaluated"
    /\ UNCHANGED <<d, ts, runVars, storeVars, calls, fetchVars, siteVars,
                   discVars>>

NextPolicy == Evaluate

SpecPolicy == InitPolicy /\ [][NextPolicy]_vars

-----------------------------------------------------------------------------
(* SpecLedger: completed reconciler calls on the two tables. upsert_master *)
(* is called with accepted records only, upsert_revisar with rejected ones *)
(* (main, lines 429-438).                                                  *)

MaxCalls == 3

LedgerUrls == {<<"a">>, <<"b">>}

LedgerRecords ==
    { Record("t1", 3, 90000, 50000, "belgrano", "Depto", "S"),
      Record("t2", 2, 90000, 50000, "olivos", "PH", "N"),
      Record("t1", 3, 85000, 50000, "belgrano", "Depto", "S"),
      Record("t1", 3, 85000, 60000, "belgrano", "Depto", "S"),
      Record("t1", 3, 90000, 60000, "belgrano", "Depto", "S"),
      Record("t3", 3, 90000, None, "belgrano", "PH", "N"),
      Record("t4", None, None, None, "", "Depto", "N") }

InitLedger ==
    /\ pc = "ledger"
    /\ ws_master = <<master_headers>>
    /\ ws_revisar = <<revisar_headers>>
    /\ ws_log = <<>>
    /\ ts = 1 /\ calls = <<>>
    /\ IdleRun /\ IdlePolicy /\ IdleFetch /\ IdleSite /\ IdleDiscovery

LedgerUpsertMaster ==
    /\ pc = "ledger" /\ Len(calls) < MaxCalls
    /\ \E url \in LedgerUrls, r \in LedgerRecords :
        /\ strict_ok(r).ok
        /\ ws_master' = upsert_master(ws_master, url, r, ts).ws
        /\ calls' = Append(calls,
              [tab |-> "MASTER", url |-> url, d |-> r, ts |-> ts,
               res |-> upsert_master(ws_master, url, r, ts).res])
    /\ UNCHANGED <<pc, ts, runVars, ws_revisar, ws_log, polVars, fetchVars, siteVars,
                   discVars>>

LedgerUpsertRevisar ==
    /\ pc = "ledger" /\ Len(calls) < MaxCalls
    /\ \E url \in LedgerUrls, r \in LedgerRecords :
        /\ ~strict_ok(r).ok
        /\ ws_revisar' =
              upsert_revisar(ws_revisar, url, r, ts, strict_ok(r).reason).ws
        /\ calls' = Append(calls,
              [tab |-> "REVISAR", url |-> url, d |-> r, ts |-> ts,
               res |-> upsert_revisar(ws_revisar, url, r, ts,
                                      strict_ok(r).reason).res])
    /\ UNCHANGED <<pc, ts, runVars, ws_master, ws_log, polVars, fetchVars, siteVars,
                   discVars>>

\* A later run: now_utc_iso() has advanced.
LedgerNextRun ==
    /\ pc = "ledger" /\ Len(calls) < MaxCalls /\ ts <= Len(calls)
    /\ ts' = ts + 1
    /\ UNCHANGED <<pc, runVars, storeVars, polVars, calls, fetchVars, siteVars,
                   discVars>>

NextLedger == LedgerUpsertMaster \/ LedgerUpsertRevisar \/ LedgerNextRun

SpecLedger == InitLedger /\ [][NextLedger]_vars

-----------------------------------------------------------------------------
(* Properties of the acceptance policy (SpecPolicy).                       *)

\* The rules a record violates, by their number in the fixed order.
ViolatedRules(r) ==
    {k \in 1..5 :
        \/ k = 1 /\ r.barrio = ""
        \/ k = 2 /\ (r.ambientes = None \/ r.ambientes < MIN_AMB)
        \/ k = 3 /\ (r.price_usd = None \/ r.price_usd > MAX_USD)
        \/ k = 4 /\ r.expensas_ars = None
        \/ k = 5 /\ r.expensas_ars # None /\ r.expensas_ars > MAX_EXP}

FirstViolatedReason(r) ==
    IF ViolatedRules(r) = {} THEN "OK"
    ELSE RuleReason[SetMin(ViolatedRules(r))]

\* C2: for every record, strict_ok returns a result, accepts exactly when no
\* rule is violated, and otherwise reports the reason of the violated rule
\* that comes first in the order neighborhood, rooms, price, fee absent,
\* fee above maximum.
C2_FirstViolatedRule ==
    /\ pc = "evaluate" => ENABLED Evaluate
    /\ pc = "evaluated" =>
        /\ ok = (ViolatedRules(d) = {})
        /\ reason = FirstViolatedReason(d)

\* A record violating the rooms, price and fee rules at once was evaluated
\* and the rooms reason was reported.
C2_Witness ==
    /\ pc = "evaluated"
    /\ ViolatedRules(d) = {2, 3, 4}
    /\ ~ok /\ reason = RuleReason[2]

\* A record that passes the rules other than the numeric limits.
PassesNonNumeric(r) ==
    r.barrio # "" /\ r.ambientes # None /\ r.price_usd # None
    /\ r.expensas_ars # None

\* Every numeric field within its limit, limits included.
WithinLimits(r) ==
    r.ambientes >= MIN_AMB /\ r.price_usd <= MAX_USD
    /\ r.expensas_ars <= MAX_EXP

\* C3: the numeric limits are inclusive: with rooms at or above the minimum,
\* a record at the maximum price and at the maximum fee (and one at the
\* minimum rooms) is accepted; one unit above the maximum price, or one unit
\* above the maximum fee, is rejected.
C3_InclusiveLimits ==
    (pc = "evaluated" /\ PassesNonNumeric(d)) =>
        /\ (WithinLimits(d)) => ok
        /\ (d.ambientes >= MIN_AMB /\ d.price_usd = MAX_USD + 1) => ~ok
        /\ (d.ambientes >= MIN_AMB /\ d.price_usd <= MAX_USD
            /\ d.expensas_ars = MAX_EXP + 1) => ~ok

\* The record with rooms, price and fee all exactly at their limits was
\* evaluated and accepted.
C3_Witness ==
    /\ pc = "evaluated" /\ ok
    /\ d.barrio # "" /\ d.ambientes = MIN_AMB /\ d.price_usd = MAX_USD
    /\ d.expensas_ars = MAX_EXP

-----------------------------------------------------------------------------
(* Properties of upsert_master (SpecLedger).                               *)

\* The completed upsert_master calls on url, in order.
MasterCalls(url) ==
    LET OnUrl(c) == c.tab = "MASTER" /\ c.url = url
    IN  SelectSeq(calls, OnUrl)

\* The prices of those calls, in order.
PricesOf(url) ==
    [k \in 1..Len(MasterCalls(url)) |-> MasterCalls(url)[k].d.price_usd]

SeqRange(s) == {s[k] : k \in 1..Len(s)}

\* The Accepted rows holding url.
MasterRows(url) == {i \in 2..Len(ws_master) : ws_master[i][1] = url}

\* s and t hold the same values the same number of times.
IsPermutation(s, t) ==
    /\ Len(s) = Len(t)
    /\ \A v \in SeqRange(s) \cup SeqRange(t) :
        Cardinality({k \in 1..Len(s) : s[k] = v})
            = Cardinality({k \in 1..Len(t) : t[k] = v})

\* C4: after every completed upsert_master call, create or update, the row
\* of the call's url has price_min <= price_usd <= price_max and
\* exp_min <= expensas_ars.
C4_RowBounds ==
    (calls # <<>> /\ calls[Len(calls)].tab = "MASTER") =>
        \A i \in MasterRows(calls[Len(calls)].url) :
            /\ ws_master[i][14] <= ws_master[i][6]
            /\ ws_master[i][6] <= ws_master[i][15]
            /\ ws_master[i][16] <= ws_master[i][7]

\* An update has raised a row's price and fee above the values it was
\* created with.
C4_Witness ==
    /\ calls # <<>>
    /\ calls[Len(calls)].tab = "MASTER" /\ calls[Len(calls)].res = "UPDATED"
    /\ \E i \in MasterRows(calls[Len(calls)].url) :
        /\ ws_master[i][14] < ws_master[i][6]
        /\ ws_master[i][16] < ws_master[i][7]

\* C5: after N >= 1 upsert_master calls on a url with prices p1..pN, its row
\* has price_min = min(p1..pN), price_max = max(p1..pN), price_usd = pN; and
\* two urls whose price sequences are permutations of each other have equal
\* price_min and equal price_max.
C5_MinMaxOfHistory ==
    /\ \A u \in LedgerUrls :
        PricesOf(u) # <<>> =>
            /\ MasterRows(u) # {}
            /\ \A i \in MasterRows(u) :
                /\ ws_master[i][14] = SetMin(SeqRange(PricesOf(u)))
                /\ ws_master[i][15] = SetMax(SeqRange(PricesOf(u)))
                /\ ws_master[i][6] = PricesOf(u)[Len(PricesOf(u))]
    /\ \A u, v \in LedgerUrls :
        (PricesOf(u) # <<>> /\ IsPermutation(PricesOf(u), PricesOf(v))) =>
            \A i \in MasterRows(u), j \in MasterRows(v) :
                /\ ws_master[i][14] = ws_master[j][14]
                /\ ws_master[i][15] = ws_master[j][15]

\* Scenario 4: a url reconciled with 90000 then 85000 shows 85000, 90000 and
\* current 85000.
C5_Witness ==
    \E u \in LedgerUrls :
        /\ PricesOf(u) = <<90000, 85000>>
        /\ \E i \in MasterRows(u) :
            /\ ws_master[i][14] = 85000 /\ ws_master[i][15] = 90000
            /\ ws_master[i][6] = 85000

\* Two or more calls on url, all with the price and fee of the first.
SamePriceAndFee(url) ==
    /\ Len(MasterCalls(url)) >= 2
    /\ \A k \in 1..Len(MasterCalls(url)) :
        /\ MasterCalls(url)[k].d.price_usd = MasterCalls(url)[1].d.price_usd
        /\ MasterCalls(url)[k].d.expensas_ars
              = MasterCalls(url)[1].d.expensas_ars

\* C6: when a url is reconciled again with a record of the same price and
\* fee, its row keeps price_min = price_max = price, keeps the first_seen,
\* title, barrio, tipo, balcon_patio and apto_credito of its creation, and
\* no second row is appended: the repeated call returns UPDATED.
C6_Idempotent ==
    \A u \in LedgerUrls :
        SamePriceAndFee(u) =>
            LET first == MasterCalls(u)[1]
            IN  /\ Cardinality(MasterRows(u)) = 1
                /\ \A k \in 2..Len(MasterCalls(u)) :
                    MasterCalls(u)[k].res = "UPDATED"
                /\ \A i \in MasterRows(u) :
                    /\ ws_master[i][14] = first.d.price_usd
                    /\ ws_master[i][15] = first.d.price_usd
                    /\ ws_master[i][11] = first.ts
                    /\ ws_master[i][10] = first.d.title
                    /\ ws_master[i][3] = first.d.barrio
                    /\ ws_master[i][4] = first.d.tipo
                    /\ ws_master[i][8] = first.d.balcon_patio
                    /\ ws_master[i][9] = "Validar"

\* A url was reconciled twice with the same price and fee, in a later run
\* and with another title.
C6_Witness ==
    \E u \in LedgerUrls :
        /\ SamePriceAndFee(u)
        /\ Len(MasterCalls(u)) = 2
        /\ MasterCalls(u)[2].ts > MasterCalls(u)[1].ts
        /\ MasterCalls(u)[2].d.title # MasterCalls(u)[1].d.title
        /\ \E i \in MasterRows(u) : ws_master[i][12] = MasterCalls(u)[2].ts

\* The call the step completes, when it completes one on the given table.
Completes(tab) ==
    /\ Len(calls') = Len(calls) + 1
    /\ calls'[Len(calls')].tab = tab

\* The rows of the Review table holding url.
RevisarRows(url) == {i \in 2..Len(ws_revisar) : ws_revisar[i][1] = url}

\* C13: upsert_revisar on a url the Review table holds changes only the
\* last_seen and the reason of that url's row, leaves every other cell and
\* row as it was and appends nothing; on an unknown url it appends exactly
\* one full row whose first_seen and last_seen are the call's timestamp.
\* Neither touches the Accepted table.
C13_RevisarFrame ==
    [][Completes("REVISAR") =>
        LET c == calls'[Len(calls')]
            why == FirstViolatedReason(c.d)
        IN  /\ ws_master' = ws_master
            /\ \A i \in 1..Len(ws_revisar) : \A k \in 1..12 :
                  ws_revisar'[i][k] # ws_revisar[i][k]
                     => i \in RevisarRows(c.url) /\ k \in {10, 12}
            /\ IF RevisarRows(c.url) # {}
               THEN /\ c.res = "UPDATED"
                    /\ Len(ws_revisar') = Len(ws_revisar)
                    /\ \A i \in RevisarRows(c.url) :
                          /\ ws_revisar'[i][12] = c.ts
                          /\ ws_revisar'[i][10] = why
               ELSE /\ c.res = "NEW"
                    /\ Len(ws_revisar') = Len(ws_revisar) + 1
                    /\ ws_revisar'[Len(ws_revisar')] =
                          <<c.url, "Zonaprop", c.d.barrio, c.d.tipo,
                            c.d.ambientes, c.d.price_usd, c.d.expensas_ars,
                            c.d.balcon_patio, c.d.title, why, c.ts, c.ts>>
    ]_vars

\* C13 witness: a Review row seen in an earlier run was updated by a later
\* observation with another title and another reason: it keeps the first
\* title and first_seen and carries the later last_seen and reason.
C13_Witness ==
    /\ calls # <<>>
    /\ LET c == calls[Len(calls)]
       IN  /\ c.tab = "REVISAR" /\ c.res = "UPDATED"
           /\ \E i \in RevisarRows(c.url) :
                 /\ ws_revisar[i][11] < ws_revisar[i][12]
                 /\ ws_revisar[i][12] = c.ts
                 /\ ws_revisar[i][9] # c.d.title
                 /\ ws_revisar[i][10] = FirstViolatedReason(c.d)
                 /\ \E j \in 1..(Len(calls) - 1) :
                       /\ calls[j].tab = "REVISAR" /\ calls[j].url = c.url
                       /\ FirstViolatedReason(calls[j].d) # ws_revisar[i][10]

-----------------------------------------------------------------------------
(* SpecFetch: one call of fetch. A response is an HTTP status code, or     *)
(* NoResponse when SESSION.get raises (timeout, connection error).         *)

NoResponse == 0

\* range(1, 7): the last attempt number.
LastAttempt == 6

Responses == {NoResponse, 200, 304, 403, 404, 429, 500}

\* r.status_code in (403, 429)
IsBlocked(resp) == resp \in {403, 429}

\* r.raise_for_status() raises for 4xx and 5xx.
RaisesForStatus(resp) == 400 <= resp /\ resp < 600

NoLast == <<"None", 0>>

\* last = f"HTTP {r.status_code}"
LastOfBlocked(resp) == <<"HTTP", resp>>

\* The reason kept from the first failure instead of the latest one.
LastOfError_first(prev, resp) ==
    IF prev = NoLast THEN <<"repr", resp>> ELSE prev

\* last = repr(e)
LastOfError(prev, resp) == <<"repr", resp>>

\* The sleep after a failed attempt, in tenths of a second, as the interval
\* random.uniform can give: 5 * attempt + [0.2, 1.8]; 2 * attempt + [0.2, 1.0].
SleepBlocked(a) == [attempt |-> a, lo |-> 50 * a + 2, hi |-> 50 * a + 18]
SleepError(a) == [attempt |-> a, lo |-> 20 * a + 2, hi |-> 20 * a + 10]

InitFetch ==
    /\ pc = "fetch_get"
    /\ attempt = 1 /\ last = NoLast /\ resps = <<>> /\ sleeps = <<>>
    /\ ts = 0 /\ calls = <<>>
    /\ IdleRun /\ IdleStore /\ IdlePolicy /\ IdleSite /\ IdleDiscovery

\* SESSION.get(url) of one attempt and the branch its outcome takes.
FetchGet ==
    /\ pc = "fetch_get"
    /\ \E resp \in Responses :
        /\ resps' = Append(resps, resp)
        /\ IF resp # NoResponse /\ IsBlocked(resp)
           THEN pc' = "fetch_sleep_blocked" /\ last' = last
           ELSE IF resp = NoResponse \/ RaisesForStatus(resp)
           THEN pc' = "fetch_sleep_error" /\ last' = LastOfError(last, resp)
           ELSE pc' = "fetch_returned" /\ last' = last
    /\ UNCHANGED <<attempt, sleeps, ts, runVars, storeVars, polVars, calls,
                   siteVars, discVars>>

\* The for loop's step after a failed attempt.
AfterAttempt ==
    IF attempt < LastAttempt
    THEN pc' = "fetch_get" /\ attempt' = attempt + 1
    ELSE pc' = "fetch_raised" /\ attempt' = attempt

\* 403 / 429: sleep, record the status, continue.
FetchSleepBlocked ==
    /\ pc = "fetch_sleep_blocked"
    /\ sleeps' = Append(sleeps, SleepBlocked(attempt))
    /\ last' = LastOfBlocked(resps[Len(resps)])
    /\ AfterAttempt
    /\ UNCHANGED <<resps, ts, runVars, storeVars, polVars, calls,
                   siteVars, discVars>>

\* except Exception: the reason is recorded, sleep.
FetchSleepError ==
    /\ pc = "fetch_sleep_error"
    /\ sleeps' = Append(sleeps, SleepError(attempt))
    /\ AfterAttempt
    /\ UNCHANGED <<last, resps, ts, runVars, storeVars, polVars, calls,
                   siteVars, discVars>>

NextFetch == FetchGet \/ FetchSleepBlocked \/ FetchSleepError

SpecFetch == InitFetch /\ [][NextFetch]_vars

-----------------------------------------------------------------------------
(* Properties of fetch (SpecFetch).                                        *)

\* A response after which fetch does not return: 403/429, an error status
\* or an exception.
FailedResponse(resp) ==
    resp \in {403, 429} \/ resp = NoResponse \/ resp >= 400

\* The failure reason of a failed response, as the terminal error shows it.
FailureReason(resp) ==
    IF resp \in {403, 429} THEN <<"HTTP", resp>> ELSE <<"repr", resp>>

\* C8: fetch makes at most 6 GET attempts and never stops in between; every
\* attempt but the latest has failed, so the first response that is neither
\* 403/429 nor an error ends the call, which returns there; fetch raises
\* only after 6 failed attempts, with the reason of the 6th.
C8_FetchBounded ==
    /\ Len(resps) <= 6
    /\ \A k \in 1..(Len(resps) - 1) : FailedResponse(resps[k])
    /\ pc \in {"fetch_get", "fetch_sleep_blocked", "fetch_sleep_error"}
          => ENABLED NextFetch
    /\ pc = "fetch_get" => Len(resps) = attempt - 1
    /\ pc = "fetch_returned" <=>
          (resps # <<>> /\ ~FailedResponse(resps[Len(resps)]))
    /\ pc = "fetch_returned" => ~ENABLED NextFetch
    /\ pc = "fetch_raised" =>
        /\ Len(resps) = 6
        /\ FailedResponse(resps[6])
        /\ last = FailureReason(resps[6])
        /\ ~ENABLED NextFetch

\* fetch raised after six failures of which the last differs from the
\* earlier ones.
C8_Witness ==
    /\ pc = "fetch_raised"
    /\ resps = <<403, 500, NoResponse, 429, 404, 500>>
    /\ last = <<"repr", 500>>

\* The k-th sleep of the call follows the k-th response, on attempt k, and
\* lasts 5k + [0.2, 1.8] s after a 403 / 429 and 2k + [0.2, 1.0] s after
\* any other failure (in tenths of a second); the shortest delay after a
\* blocking response exceeds the longest after another failure.
BackoffDelay(k) ==
    /\ k <= Len(resps)
    /\ sleeps[k].attempt = k
    /\ IF resps[k] \in {403, 429}
       THEN sleeps[k].lo = 50 * k + 2 /\ sleeps[k].hi = 50 * k + 18
       ELSE sleeps[k].lo = 20 * k + 2 /\ sleeps[k].hi = 20 * k + 10
    /\ 50 * k + 2 > 20 * k + 10

\* After the k-th sleep another GET is made or is the next step.
RetryFollows(k) == Len(resps) > k \/ pc = "fetch_get"

\* C17: after a 403 / 429 on attempt n fetch sleeps 5n plus a jitter in
\* [0.2, 1.8] seconds, after any other failure 2n plus a jitter in
\* [0.2, 1.0] seconds, the former strictly longer than the latter for the
\* same n, and every such sleep is followed by another GET attempt.
C17_BackoffThenRetry ==
    \A k \in 1..Len(sleeps) : BackoffDelay(k) /\ RetryFollows(k)

\* The delays are as stated, and every sleep but the one after the last
\* attempt is followed by another GET.
BackoffThenRetryBeforeLast ==
    \A k \in 1..Len(sleeps) :
        BackoffDelay(k) /\ (k < LastAttempt => RetryFollows(k))

-----------------------------------------------------------------------------
(* Spec: repeated runs of main. fetch is taken by its outcome (it returns  *)
(* the page or raises, see SpecFetch) and a page by the record             *)
(* extract_metrics draws from it. Every call on the store may raise        *)
(* instead of taking effect.                                               *)

MaxRuns == 2
MaxBudget == 2

\* The urls the sitemaps may list.
SitemapUrls ==
    { <<"a">>, <<"a", "?", "x">>, <<"b", " ", "?", "y">>, <<"c">> }

\* The records the fetched pages may yield.
RunRecords ==
    { Record("t1", 3, 90000, 50000, "belgrano", "Depto", "S"),
      Record("t2", 3, 85000, 60000, "belgrano", "Depto", "S"),
      Record("t3", 3, 90000, None, "belgrano", "PH", "N") }

NoUpd == [row |-> 0, pmin |-> 0, pmax |-> 0, emin |-> 0]

\* A selection that does not leave out the urls already in the tables.
RECURSIVE select_new_unfiltered(_, _, _, _, _)
select_new_unfiltered(urls, k, acc, seen, budget) ==
    IF k > Len(urls) THEN acc
    ELSE LET acc2 == Append(acc, normalize_url(urls[k]))
         IN  IF Len(acc2) >= budget THEN acc2
             ELSE select_new_unfiltered(urls, k + 1, acc2, seen, budget)

\* The loop of lines 408-414 from position k on, acc the new_urls so far.
RECURSIVE select_new(_, _, _, _, _)
select_new(urls, k, acc, seen, budget) ==
    IF k > Len(urls) THEN acc
    ELSE LET u0 == normalize_url(urls[k])
             acc2 == IF u0 \notin seen THEN Append(acc, u0) ELSE acc
         IN  IF Len(acc2) >= budget THEN acc2
             ELSE select_new(urls, k + 1, acc2, seen, budget)

\* telegram_items entry of a newly accepted listing.
telegram_item(u, r) ==
    [barrio |-> r.barrio, tipo |-> r.tipo, ambientes |-> r.ambientes,
     price_usd |-> r.price_usd, expensas_ars |-> r.expensas_ars, url |-> u]

\* A message that lists every item, without the cut after the tenth.
telegram_message_uncapped(items) ==
    IF items # <<>>
    THEN [new |-> TRUE, items |-> items,
          more |-> IF Len(items) > 10 THEN Len(items) - 10 ELSE 0]
    ELSE [new |-> FALSE, items |-> <<>>, more |-> 0]

\* The message main hands to telegram_send.
telegram_message(items) ==
    IF items # <<>>
    THEN [new |-> TRUE, items |-> SubSeq(items, 1, Min(10, Len(items))),
          more |-> IF Len(items) > 10 THEN Len(items) - 10 ELSE 0]
    ELSE [new |-> FALSE, items |-> <<>>, more |-> 0]

Init ==
    /\ pc = "idle"
    /\ SHEET_ID \in BOOLEAN
    /\ MAX_NEW_URLS_PER_RUN \in 0..MaxBudget
    /\ ws_master = <<>> /\ ws_revisar = <<>> /\ ws_log = <<>>
    /\ ts = 0 /\ runs = 0
    /\ existing_master = {} /\ existing_revisar = {}
    /\ all_urls = <<>> /\ new_urls = <<>> /\ idx = 0
    /\ added_master = 0 /\ added_revisar = 0 /\ errors = 0
    /\ telegram_items = <<>> /\ upd = NoUpd
    /\ http = FALSE /\ log0 = 0 /\ created = {} /\ discovered = FALSE
    /\ notified = <<>> /\ raised = <<>>
    /\ calls = <<>>
    /\ IdlePolicy /\ IdleFetch /\ IdleSite /\ IdleDiscovery

\* The locals of main and the observers as a run starts.
FreshRun ==
    /\ existing_master' = {} /\ existing_revisar' = {}
    /\ all_urls' = <<>> /\ new_urls' = <<>> /\ idx' = 0
    /\ added_master' = 0 /\ added_revisar' = 0 /\ errors' = 0
    /\ telegram_items' = <<>> /\ upd' = NoUpd
    /\ http' = FALSE /\ log0' = 0 /\ created' = {} /\ discovered' = FALSE
    /\ notified' = <<>> /\ raised' = <<>>

AtRest == pc \in {"idle", "done", "aborted"}

\* main, lines 392-393: SHEET_ID is missing.
MissingSheetId ==
    /\ AtRest /\ runs < MaxRuns /\ ~SHEET_ID
    /\ runs' = runs + 1
    /\ pc' = "aborted"
    /\ FreshRun
    /\ UNCHANGED <<ts, SHEET_ID, MAX_NEW_URLS_PER_RUN, storeVars, polVars,
                   calls, fetchVars, siteVars,
                   discVars>>

\* main, line 395: ts = now_utc_iso().
StartRun ==
    /\ AtRest /\ runs < MaxRuns /\ SHEET_ID
    /\ runs' = runs + 1
    /\ ts' = ts + 1
    /\ pc' = "warmup"
    /\ FreshRun
    /\ UNCHANGED <<SHEET_ID, MAX_NEW_URLS_PER_RUN, storeVars, polVars, calls,
                   fetchVars, siteVars, discVars>>

\* warmup(): two fetches whose failure is only logged.
Warmup ==
    /\ pc = "warmup"
    /\ http' = TRUE
    /\ pc' = "connect"
    /\ UNCHANGED <<ts, SHEET_ID, MAX_NEW_URLS_PER_RUN, existing_master,
                   existing_revisar, all_urls, new_urls, idx, added_master,
                   added_revisar, errors, telegram_items, upd, runs, log0, created,
                   discovered, notified, raised, storeVars, polVars, calls,
                   fetchVars, siteVars, discVars>>

\* connect_sheet(): the three worksheets, created with their headers when
\* absent.
ConnectSheet ==
    /\ pc = "connect"
    /\ ws_master' = get_or_create(ws_master, master_headers)
    /\ ws_revisar' = get_or_create(ws_revisar, revisar_headers)
    /\ ws_log' = get_or_create(ws_log, log_headers)
    /\ log0' = Len(ws_log')
    /\ created' = (IF ws_master = <<>> THEN {"MASTER"} ELSE {})
                   \cup (IF ws_revisar = <<>> THEN {"REVISAR"} ELSE {})
                   \cup (IF ws_log = <<>> THEN {"LOG"} ELSE {})
    /\ pc' = "load"
    /\ UNCHANGED <<ts, SHEET_ID, MAX_NEW_URLS_PER_RUN, existing_master,
                   existing_revisar, all_urls, new_urls, idx, added_master,
                   added_revisar, errors, telegram_items, upd, runs, http,
                   discovered, notified, raised, polVars, calls, fetchVars, siteVars,
                   discVars>>

\* connect_sheet() raises: GCP_SA_JSON is missing or the store refuses.
ConnectSheetRaises ==
    /\ pc = "connect"
    /\ pc' = "aborted"
    /\ UNCHANGED <<ts, runVars, storeVars, polVars, calls, fetchVars, siteVars,
                   discVars>>

\* main, lines 400-401.
LoadExisting ==
    /\ pc = "load"
    /\ existing_master' = load_existing_urls(ws_master)
    /\ existing_revisar' = load_existing_urls(ws_revisar)
    /\ pc' = "discover"
    /\ UNCHANGED <<ts, SHEET_ID, MAX_NEW_URLS_PER_RUN, all_urls, new_urls, idx,
                   added_master, added_revisar, errors, telegram_items, upd,
                   runs, http, log0, created, discovered, notified, raised, storeVars,
                   polVars, calls, fetchVars, siteVars,
                   discVars>>

\* get_urls_from_sitemaps() returns the sorted urls of the sitemaps read.
Discover ==
    /\ pc = "discover"
    /\ \E S \in SUBSET SitemapUrls : all_urls' = Sorted(S)
    /\ discovered' = TRUE
    /\ pc' = "select"
    /\ UNCHANGED <<ts, SHEET_ID, MAX_NEW_URLS_PER_RUN, existing_master,
                   existing_revisar, new_urls, idx, added_master,
                   added_revisar, errors, telegram_items, upd, runs, http,
                   log0, created, notified, raised, storeVars, polVars, calls,
                   fetchVars, siteVars, discVars>>

\* A failed discovery that is entered in the audit log before main ends.
DiscoverRaises_audited ==
    /\ pc = "discover"
    /\ ws_log' = Append(ws_log, <<ts, 0, 0, 0, 1>>)
    /\ pc' = "aborted"
    /\ UNCHANGED <<ts, runVars, ws_master, ws_revisar, polVars, calls,
                   fetchVars, siteVars, discVars>>

\* get_urls_from_sitemaps() raises: no sitemap could be found.
DiscoverRaises ==
    /\ pc = "discover"
    /\ pc' = "aborted"
    /\ UNCHANGED <<ts, runVars, storeVars, polVars, calls, fetchVars, siteVars,
                   discVars>>

\* main, lines 408-421: the urls of this run and the counters.
Select ==
    /\ pc = "select"
    /\ new_urls' = select_new(all_urls, 1, <<>>,
                              existing_master \cup existing_revisar,
                              MAX_NEW_URLS_PER_RUN)
    /\ idx' = 1
    /\ added_master' = 0 /\ added_revisar' = 0 /\ errors' = 0
    /\ telegram_items' = <<>>
    /\ pc' = "loop"
    /\ UNCHANGED <<ts, SHEET_ID, MAX_NEW_URLS_PER_RUN, existing_master,
                   existing_revisar, all_urls, upd, runs, http, log0, created,
                   discovered, notified, raised, storeVars, polVars, calls,
                   fetchVars, siteVars, discVars>>

\* What the loop over new_urls never assigns.
loopFrame == <<ts, SHEET_ID, MAX_NEW_URLS_PER_RUN, existing_master,
               existing_revisar, all_urls, new_urls, runs, http, log0, created,
               discovered, calls, fetchVars, siteVars,
                   discVars>>

InLoop == pc = "loop" /\ idx <= Len(new_urls)

\* The next iteration; d, ok and reason are dead until it assigns them.
NextUrl ==
    /\ idx' = idx + 1
    /\ pc' = "loop"
    /\ d' = NoRecord /\ ok' = FALSE /\ reason' = ""
    /\ upd' = NoUpd

\* except Exception, lines 442-445.
Caught ==
    /\ errors' = errors + 1
    /\ raised' = Append(raised, idx)
    /\ NextUrl
    /\ UNCHANGED <<added_master, added_revisar, telegram_items, notified,
                   storeVars, loopFrame>>

\* fetch(u) raises after its last attempt.
FetchRaises == InLoop /\ Caught

\* extract_metrics(html) raises.
ExtractRaises == InLoop /\ Caught

\* Lines 425-427: the page is fetched, the record extracted and classified.
FetchAndClassify ==
    /\ InLoop
    /\ \E r \in RunRecords :
        /\ d' = r
        /\ ok' = strict_ok(r).ok
        /\ reason' = strict_ok(r).reason
    /\ pc' = "reconcile"
    /\ UNCHANGED <<idx, added_master, added_revisar, errors, telegram_items,
                   upd, raised, notified, storeVars, loopFrame>>

\* The store raises in an upsert before its first write.
ReconcileRaises == pc = "reconcile" /\ Caught

\* upsert_master returns NEW: the row is appended and counted.
MasterAppend ==
    /\ pc = "reconcile" /\ ok
    /\ RowOf(ws_master, new_urls[idx]) = 0
    /\ ws_master' = Append(ws_master, master_new_row(new_urls[idx], d, ts))
    /\ added_master' = added_master + 1
    /\ telegram_items' = Append(telegram_items, telegram_item(new_urls[idx], d))
    /\ NextUrl
    /\ UNCHANGED <<added_revisar, errors, raised, notified, ws_revisar, ws_log,
                   loopFrame>>

\* upsert_master, update path up to its first range write.
MasterWriteFG ==
    /\ pc = "reconcile" /\ ok
    /\ RowOf(ws_master, new_urls[idx]) # 0
    /\ upd' = master_stats(ws_master, RowOf(ws_master, new_urls[idx]), d)
    /\ ws_master' = master_write_FG(ws_master,
                                    RowOf(ws_master, new_urls[idx]), d)
    /\ pc' = "master_LP"
    /\ UNCHANGED <<idx, added_master, added_revisar, errors, telegram_items,
                   raised, notified, ws_revisar, ws_log, polVars, loopFrame>>

\* upsert_master, second range write; it returns UPDATED.
MasterWriteLP ==
    /\ pc = "master_LP"
    /\ ws_master' = master_write_LP(ws_master, upd, ts)
    /\ NextUrl
    /\ UNCHANGED <<added_master, added_revisar, errors, telegram_items, raised,
                   notified, ws_revisar, ws_log, loopFrame>>

\* The store raises on the second range write.
MasterWriteLPRaises == pc = "master_LP" /\ Caught

\* upsert_revisar returns NEW; main counts every return.
RevisarAppend ==
    /\ pc = "reconcile" /\ ~ok
    /\ RowOf(ws_revisar, new_urls[idx]) = 0
    /\ ws_revisar' =
          Append(ws_revisar, revisar_new_row(new_urls[idx], d, ts, reason))
    /\ added_revisar' = added_revisar + 1
    /\ NextUrl
    /\ UNCHANGED <<added_master, errors, telegram_items, raised, notified,
                   ws_master, ws_log, loopFrame>>

\* upsert_revisar, update path: last_seen is written.
RevisarWriteL ==
    /\ pc = "reconcile" /\ ~ok
    /\ RowOf(ws_revisar, new_urls[idx]) # 0
    /\ upd' = [NoUpd EXCEPT !.row = RowOf(ws_revisar, new_urls[idx])]
    /\ ws_revisar' = revisar_write_L(ws_revisar,
                                     RowOf(ws_revisar, new_urls[idx]), ts)
    /\ pc' = "revisar_J"
    /\ UNCHANGED <<idx, added_master, added_revisar, errors, telegram_items,
                   raised, notified, ws_master, ws_log, polVars, loopFrame>>

\* upsert_revisar, update path: reason is written; it returns UPDATED and
\* main counts it.
RevisarWriteJ ==
    /\ pc = "revisar_J"
    /\ ws_revisar' = revisar_write_J(ws_revisar, upd.row, reason)
    /\ added_revisar' = added_revisar + 1
    /\ NextUrl
    /\ UNCHANGED <<added_master, errors, telegram_items, raised, notified,
                   ws_master, ws_log, loopFrame>>

\* The store raises on the second cell write.
RevisarWriteJRaises == pc = "revisar_J" /\ Caught

LoopDone == pc = "loop" /\ idx > Len(new_urls)

\* Line 447: the audit row.
AuditAppend ==
    /\ LoopDone
    /\ ws_log' = Append(ws_log,
          <<ts, Len(new_urls), added_master, added_revisar, errors>>)
    /\ pc' = "notify"
    /\ UNCHANGED <<idx, added_master, added_revisar, errors, telegram_items,
                   upd, raised, notified, ws_master, ws_revisar, polVars,
                   loopFrame>>

\* Line 447: the store raises; nothing catches it and main ends.
AuditRaises ==
    /\ LoopDone
    /\ pc' = "aborted"
    /\ UNCHANGED <<ts, runVars, storeVars, polVars, calls, fetchVars, siteVars,
                   discVars>>

\* Lines 450-456: telegram_send is called with the message; what it does
\* with it (not configured, delivery failure) is only logged.
Notify ==
    /\ pc = "notify"
    /\ notified' = Append(notified, telegram_message(telegram_items))
    /\ pc' = "done"
    /\ UNCHANGED <<idx, added_master, added_revisar, errors, telegram_items,
                   upd, raised, storeVars, polVars, loopFrame>>

Next ==
    \/ MissingSheetId \/ StartRun \/ Warmup
    \/ ConnectSheet \/ ConnectSheetRaises \/ LoadExisting
    \/ Discover \/ DiscoverRaises \/ Select
    \/ FetchRaises \/ ExtractRaises \/ FetchAndClassify
    \/ ReconcileRaises
    \/ MasterAppend \/ MasterWriteFG \/ MasterWriteLP \/ MasterWriteLPRaises
    \/ RevisarAppend \/ RevisarWriteL \/ RevisarWriteJ \/ RevisarWriteJRaises
    \/ AuditAppend \/ AuditRaises \/ Notify

Spec == Init /\ [][Next]_vars

-----------------------------------------------------------------------------
(* Properties of the runs of main (Spec).                                  *)

\* The urls with a row in the Accepted / in the Review table.
MasterUrls == {ws_master[i][1] : i \in 2..Len(ws_master)}
RevisarUrls == {ws_revisar[i][1] : i \in 2..Len(ws_revisar)}

\* C1: in every state reachable by runs of main from empty tables, no url
\* has a row in both the Accepted and the Review table, also when two
\* sitemap urls that normalize to the same url are processed in one run.
C1_MutualExclusion == MasterUrls \cap RevisarUrls = {}

\* The sitemap entries of this run whose normalized url was in neither
\* table when the tables were loaded.
UnseenEntries ==
    {k \in 1..Len(all_urls) :
        normalize_url(all_urls[k]) \notin existing_master \cup existing_revisar}

\* The unseen entries a budget of MAX_NEW_URLS_PER_RUN leaves out: all but
\* the first min(B, N) in sitemap order.
LeftOut ==
    {k \in UnseenEntries :
        Cardinality({j \in UnseenEntries : j < k}) >= MAX_NEW_URLS_PER_RUN}

\* The run is past the selection of its urls.
Selected ==
    pc \in {"loop", "reconcile", "master_LP", "revisar_J", "notify", "done"}

\* C7: for every budget B >= 0 and N unseen candidates, a run selects and
\* processes exactly min(B, N) urls; the candidates left out get no row and
\* are still unseen when the run is over.
C7_Budget ==
    Selected =>
        /\ Len(new_urls) = Min(MAX_NEW_URLS_PER_RUN, Cardinality(UnseenEntries))
        /\ idx <= Len(new_urls) + 1
        /\ pc \in {"notify", "done"} =>
            /\ idx = Len(new_urls) + 1
            /\ \A k \in LeftOut :
                normalize_url(all_urls[k]) \notin MasterUrls \cup RevisarUrls

\* C9: each selected url whose fetch, extraction or reconciliation raises
\* adds one to the error counter, the loop goes on to the next url, and
\* the url has no row in either table, so that it is absent from both when
\* the next run starts.
C9_ErrorContainment ==
    Selected =>
        /\ errors = Len(raised)
        /\ \A k \in 1..Len(raised) :
            /\ raised[k] < idx
            /\ new_urls[raised[k]] \notin MasterUrls \cup RevisarUrls

\* C10: a run that got past configuration and discovery ends with exactly
\* one audit row appended and then exactly one call of the notification,
\* both after the last selected url; when every selected url failed the
\* audit row shows urlsChecked = errors > 0 and nothing added.
C10_AuditThenNotify ==
    /\ Len(notified) <= 1
    /\ Len(ws_log) <= log0 + 1 \/ ~discovered
    /\ discovered =>
        /\ notified # <<>> => Len(ws_log) = log0 + 1
        /\ Len(ws_log) = log0 + 1 => idx = Len(new_urls) + 1
        /\ pc \in {"done", "aborted"} =>
            /\ Len(ws_log) = log0 + 1
            /\ Len(notified) = 1
            /\ (new_urls # <<>> /\ Len(raised) = Len(new_urls)) =>
                ws_log[Len(ws_log)]
                    = <<ts, Len(new_urls), 0, 0, Len(new_urls)>>

-----------------------------------------------------------------------------
(* What does hold of the runs of main, next to the properties above.       *)

\* new_urls holds no url twice.
NoDuplicateSelected ==
    \A i, j \in 1..Len(new_urls) : new_urls[i] = new_urls[j] => i = j

\* With a budget of at least 1 a run selects min(B, N) urls.
BudgetFromOne ==
    (Selected /\ MAX_NEW_URLS_PER_RUN >= 1) =>
        Len(new_urls) = Min(MAX_NEW_URLS_PER_RUN, Cardinality(UnseenEntries))

\* A run that selected no url twice leaves the urls that raised without a
\* row.
ContainedWithoutDuplicates == NoDuplicateSelected => C9_ErrorContainment

\* Only the audit append raising keeps a run past discovery from its audit
\* row and its notification.
AuditedUnlessAuditRaises == pc # "aborted" => C10_AuditThenNotify

\* C15: whenever the process is ended between two writes to the store,
\* every row then in the ledger is fully written: an Accepted row has
\* price_min <= price <= price_max and exp_min <= expensas and carries the
\* last_seen and the statistics of the observation that set its price, and
\* a Review row carries the reason of the observation that set its
\* last_seen; no state shows a row between the two writes of an update.
C15_CrashConsistent ==
    /\ \A i \in 2..Len(ws_master) :
          /\ ws_master[i][14] <= ws_master[i][6]
          /\ ws_master[i][6] <= ws_master[i][15]
          /\ ws_master[i][16] <= ws_master[i][7]
    /\ pc = "master_LP"
          => ws_master[upd.row] = master_write_LP(ws_master, upd, ts)[upd.row]
    /\ pc = "revisar_J"
          => ws_revisar[upd.row] =
                revisar_write_J(ws_revisar, upd.row, reason)[upd.row]

\* main ended at line 393: SHEET_ID is missing.
MissingIdAbort == pc = "aborted" /\ ~SHEET_ID

\* main ended at line 404: connect_sheet had returned (log0 is set) and
\* get_urls_from_sitemaps raised.
DiscoveryFailed == pc = "aborted" /\ SHEET_ID /\ log0 > 0 /\ ~discovered

\* Since the tables were loaded no row was added to them, no audit row was
\* appended and nothing was handed to telegram_send.
NoRowWritten ==
    /\ MasterUrls = existing_master
    /\ Len(ws_master) = Cardinality(existing_master) + 1
    /\ RevisarUrls = existing_revisar
    /\ Len(ws_revisar) = Cardinality(existing_revisar) + 1
    /\ Len(ws_log) = log0
    /\ added_master = 0 /\ added_revisar = 0 /\ errors = 0
    /\ notified = <<>>

\* C16 as stated: when discovery fails the run has written nothing to the
\* store, no row, no audit row and no worksheet or header either, and has
\* sent no notification; when SHEET_ID is missing the run ends before any
\* HTTP request.
C16_NoWriteAtAll ==
    /\ DiscoveryFailed => NoRowWritten /\ created = {}
    /\ MissingIdAbort => ~http

\* C16: when discovery fails the run ends having added no Accepted row, no
\* Review row and no audit row and having sent no notification; the only
\* writes it made are those of connect_sheet, which before discovery creates
\* each absent worksheet with its header row. When SHEET_ID is missing the
\* run ends before any HTTP request and before connect_sheet.
C16_NoRowBeforeDiscovery ==
    /\ DiscoveryFailed
          => /\ NoRowWritten
             /\ "MASTER" \in created => ws_master = <<master_headers>>
             /\ "REVISAR" \in created => ws_revisar = <<revisar_headers>>
             /\ "LOG" \in created => ws_log = <<log_headers>>
    /\ MissingIdAbort => ~http /\ created = {} /\ notified = <<>>

\* C16 witness: a first run whose discovery failed after the warm-up and
\* after connect_sheet had created the three worksheets.
C16_Witness ==
    /\ DiscoveryFailed /\ http /\ runs = 1
    /\ created = {"MASTER", "REVISAR", "LOG"}

\* C19: in every audit row the urls checked are the sum of the other
\* three counters, added_master is the number of rows the run appended to
\* the Accepted table and added_revisar the number it appended to the
\* Review table, also when a url is selected twice in the run.
C19_AuditCounters ==
    pc \in {"notify", "done"} =>
        LET row == ws_log[Len(ws_log)]
        IN  /\ row[2] = row[3] + row[4] + row[5]
            /\ row[3] = Len(ws_master) - 1 - Cardinality(existing_master)
            /\ row[4] = Len(ws_revisar) - 1 - Cardinality(existing_revisar)

\* With no url selected twice in the run the counters are as C19 says.
AuditCountersWithoutDuplicates == NoDuplicateSelected => C19_AuditCounters

-----------------------------------------------------------------------------
(* SpecTables: the tables under the runs of main (Spec) and under          *)
(* arbitrary sequences of completed upsert calls (SpecLedger).             *)

InitTables == Init \/ InitLedger
NextTables == Next \/ NextLedger
SpecTables == InitTables /\ [][NextTables]_vars

\* No two rows of a table hold the same url.
UniqueUrls(ws) ==
    \A i, j \in 2..Len(ws) : ws[i][1] = ws[j][1] => i = j

\* Every row of the table is still there, with its url.
UrlsKept(ws, ws2) ==
    \A i \in 2..Len(ws) : Len(ws2) >= i /\ ws2[i][1] = ws[i][1]

\* C14: within each table the url is a key: after any sequence of upsert
\* calls and of runs no two rows of a table hold the same url, and no step
\* changes or removes the url of a row.
C14_UrlKey ==
    /\ [](UniqueUrls(ws_master) /\ UniqueUrls(ws_revisar))
    /\ [][UrlsKept(ws_master, ws_master')
          /\ UrlsKept(ws_revisar, ws_revisar')]_vars

\* C14 witness: a second run has ended in which the same url was selected
\* twice, so that its second reconciliation met the row of the first, with
\* rows of the first run in the table.
C14_Witness ==
    /\ pc = "done" /\ runs = 2
    /\ Len(new_urls) = 2 /\ new_urls[1] = new_urls[2]
    /\ Len(ws_master) >= 3
    /\ RowOf(ws_master, new_urls[1]) = Len(ws_master)

-----------------------------------------------------------------------------
(* SpecNotify: the loop of main over a long new_urls, the audit row and    *)
(* the notification, from empty tables. All but MaxOthers of the urls are  *)
(* accepted, with the same record.                                         *)

MaxItems == 12
MaxOthers == 2

\* The i-th url: "a" i times.
NotifyUrl(i) == [k \in 1..i |-> "a"]
NotifyUrls(n) == [i \in 1..n |-> NotifyUrl(i)]

\* new_urls: distinct urls, or the first of them selected twice.
NotifyLists ==
    {NotifyUrls(n) : n \in 0..MaxItems}
        \cup {<<NotifyUrl(1)>> \o NotifyUrls(n) : n \in 1..(MaxItems - 1)}

AcceptedRecord == Record("t1", 3, 90000, 50000, "belgrano", "Depto", "S")

InitNotify ==
    /\ pc = "loop"
    /\ SHEET_ID = TRUE /\ MAX_NEW_URLS_PER_RUN = MaxItems
    /\ ws_master = <<master_headers>>
    /\ ws_revisar = <<revisar_headers>>
    /\ ws_log = <<log_headers>>
    /\ ts = 1 /\ runs = 1
    /\ existing_master = {} /\ existing_revisar = {}
    /\ all_urls = <<>>
    /\ new_urls \in NotifyLists
    /\ idx = 1
    /\ added_master = 0 /\ added_revisar = 0 /\ errors = 0
    /\ telegram_items = <<>> /\ upd = NoUpd
    /\ http = TRUE /\ log0 = 1 /\ created = {} /\ discovered = TRUE
    /\ notified = <<>> /\ raised = <<>>
    /\ calls = <<>>
    /\ IdlePolicy /\ IdleFetch /\ IdleSite /\ IdleDiscovery

\* Another url may still be rejected or fail.
OthersLeft == added_revisar + errors < MaxOthers

NotifyClassify ==
    FetchAndClassify /\ (d' = AcceptedRecord \/ (OthersLeft /\ ~ok'))
NotifyFetchRaises == FetchRaises /\ OthersLeft
NotifyReconcileRaises == ReconcileRaises /\ OthersLeft

NextNotify ==
    \/ NotifyClassify \/ NotifyFetchRaises \/ NotifyReconcileRaises
    \/ MasterAppend \/ MasterWriteFG \/ MasterWriteLP
    \/ RevisarAppend \/ RevisarWriteL \/ RevisarWriteJ
    \/ AuditAppend \/ Notify

SpecNotify == InitNotify /\ [][NextNotify]_vars

\* The url was selected once in this run.
SelectedOnce(u) ==
    Cardinality({p \in 1..Len(new_urls) : new_urls[p] = u}) = 1

\* The urls whose processing raised in this run.
RaisedUrls == {new_urls[raised[p]] : p \in 1..Len(raised)}

-----------------------------------------------------------------------------
(* SpecProgress: main run again and again against a site whose sitemaps    *)
(* list the same urls in every run and where the pages of the urls in      *)
(* failing never load while every other page loads and is reconciled. The  *)
(* store never fails; the runs share one timestamp, which no step reads.   *)

RejectedRecord == Record("t3", 3, 90000, None, "belgrano", "PH", "N")

InitProgress ==
    /\ pc = "progress_idle"
    /\ SHEET_ID = TRUE
    /\ MAX_NEW_URLS_PER_RUN \in 1..MaxBudget
    /\ \E S \in SUBSET SitemapUrls : S # {} /\ all_urls = Sorted(S)
    /\ failing \in SUBSET {normalize_url(u) : u \in SitemapUrls}
    /\ \A u \in failing : \E k \in 1..Len(all_urls) :
          normalize_url(all_urls[k]) = u
    /\ ws_master = <<master_headers>>
    /\ ws_revisar = <<revisar_headers>>
    /\ ws_log = <<log_headers>>
    /\ ts = 1 /\ runs = 0
    /\ existing_master = {} /\ existing_revisar = {}
    /\ new_urls = <<>> /\ idx = 0
    /\ added_master = 0 /\ added_revisar = 0 /\ errors = 0
    /\ telegram_items = <<>> /\ upd = NoUpd
    /\ http = FALSE /\ log0 = 0 /\ created = {} /\ discovered = FALSE
    /\ notified = <<>> /\ raised = <<>>
    /\ calls = <<>>
    /\ web = NoWeb
    /\ IdlePolicy /\ IdleFetch /\ IdleDiscovery

\* What the runs of SpecProgress never assign.
progressFrame ==
    <<ts, SHEET_ID, MAX_NEW_URLS_PER_RUN, all_urls, added_master,
      added_revisar, telegram_items, upd, runs, http, log0, created,
      discovered, notified, raised, polVars, calls, fetchVars, siteVars,
      discVars>>

\* main, lines 400-421: the tables are loaded, the same urls discovered and
\* the urls of the run selected.
ProgressStart ==
    /\ pc = "progress_idle"
    /\ existing_master' = load_existing_urls(ws_master)
    /\ existing_revisar' = load_existing_urls(ws_revisar)
    /\ new_urls' = select_new(all_urls, 1, <<>>,
                              load_existing_urls(ws_master)
                                 \cup load_existing_urls(ws_revisar),
                              MAX_NEW_URLS_PER_RUN)
    /\ idx' = 1 /\ errors' = 0
    /\ pc' = "progress_run"
    /\ UNCHANGED <<storeVars, progressFrame>>

\* Lines 423-425, 442-445: the page of a failing url does not load.
ProgressFails ==
    /\ pc = "progress_run" /\ idx <= Len(new_urls)
    /\ new_urls[idx] \in failing
    /\ errors' = errors + 1
    /\ idx' = idx + 1
    /\ UNCHANGED <<pc, existing_master, existing_revisar, new_urls,
                   storeVars, progressFrame>>

\* Lines 423-439: the page of any other url loads and its record is
\* reconciled with the table strict_ok routes it to.
ProgressRecords ==
    /\ pc = "progress_run" /\ idx <= Len(new_urls)
    /\ new_urls[idx] \notin failing
    /\ \E r \in {AcceptedRecord, RejectedRecord} :
          IF strict_ok(r).ok
          THEN /\ ws_master' = upsert_master(ws_master, new_urls[idx], r, ts).ws
               /\ UNCHANGED ws_revisar
          ELSE /\ ws_revisar' =
                     upsert_revisar(ws_revisar, new_urls[idx], r, ts,
                                    strict_ok(r).reason).ws
               /\ UNCHANGED ws_master
    /\ idx' = idx + 1
    /\ UNCHANGED <<pc, existing_master, existing_revisar, new_urls, errors,
                   ws_log, progressFrame>>

\* The loop is over and the run ends; the next run is due.
ProgressEnd ==
    /\ pc = "progress_run" /\ idx > Len(new_urls)
    /\ pc' = "progress_idle"
    /\ new_urls' = <<>> /\ idx' = 0 /\ errors' = 0
    /\ UNCHANGED <<existing_master, existing_revisar, storeVars,
                   progressFrame>>

NextProgress ==
    ProgressStart \/ ProgressFails \/ ProgressRecords \/ ProgressEnd

\* The runs are scheduled for ever and a run that started goes on.
SpecProgress ==
    /\ InitProgress /\ [][NextProgress]_vars
    /\ WF_vars(ProgressStart) /\ WF_vars(ProgressFails)
    /\ WF_vars(ProgressRecords) /\ WF_vars(ProgressEnd)

\* The urls a sitemap entry can stand for.
CandidatePool == {normalize_url(u) : u \in SitemapUrls}

\* u is a candidate of the runs.
IsCandidate(u) == \E k \in 1..Len(all_urls) : normalize_url(all_urls[k]) = u

\* u has a row in one of the two tables.
Recorded(u) == u \in MasterUrls \cup RevisarUrls

\* The sitemap entries whose url fails in every run.
FailingEntries == {k \in 1..Len(all_urls) : normalize_url(all_urls[k]) \in failing}

\* C20 as stated: with a fixed candidate set and a budget of at least 1,
\* under repeated runs every candidate whose fetch and reconciliation
\* succeed whenever attempted is eventually recorded in one of the tables:
\* the urls that fail in every run do not starve it.
C20_Progress ==
    \A u \in CandidatePool :
        <>(IsCandidate(u) /\ u \notin failing => Recorded(u))

\* C20: with a fixed candidate set and a budget of at least 1, under
\* repeated runs every candidate whose fetch and reconciliation succeed
\* whenever attempted is eventually recorded, provided the sitemap entries
\* whose url fails in every run are fewer than the budget.
C20_ProgressWithinBudget ==
    \A u \in CandidatePool :
        <>((IsCandidate(u) /\ u \notin failing
              /\ Cardinality(FailingEntries) < MAX_NEW_URLS_PER_RUN)
           => Recorded(u))

\* C20 witness: in a run after the first, a url that fails in every run was
\* selected again and failed, within a budget larger than the number of
\* failing entries, and every other candidate is recorded.
C20_Witness ==
    /\ pc = "progress_run" /\ idx > Len(new_urls)
    /\ existing_master \cup existing_revisar # {}
    /\ \E k \in 1..Len(new_urls) : new_urls[k] \in failing
    /\ Cardinality(FailingEntries) < MAX_NEW_URLS_PER_RUN
    /\ \E u \in CandidatePool \ failing :
          IsCandidate(u) /\ u \notin existing_master \cup existing_revisar
    /\ \A u \in CandidatePool \ failing : IsCandidate(u) => Recorded(u)

-----------------------------------------------------------------------------
(* SpecDiscovery: one call of get_urls_from_sitemaps(limit_sitemaps)       *)
(* against a site. fetch is taken by its outcome (see SpecFetch).          *)

MaxLimit == 2

\* Addresses of sub-sitemaps: "sitemap1", "SiteMap2", "feed3".
Loc1 == <<"s", "i", "t", "e", "m", "a", "p", "1">>
Loc2 == <<"S", "i", "t", "e", "M", "a", "p", "2">>
Loc3 == <<"f", "e", "e", "d", "3">>
Locs == {Loc1, Loc2, Loc3}

\* What SITEMAP_INDEX may serve.
IndexDocuments ==
    { Unserved,
      Document(TRUE, "malformed", <<>>),
      Document(TRUE, "html", <<>>),
      Document(TRUE, "urlset", << <<"a">> >>),
      Document(TRUE, "sitemapindex", <<>>),
      Document(TRUE, "sitemapindex", <<Loc3>>),
      Document(TRUE, "sitemapindex", <<Loc1>>),
      Document(TRUE, "sitemapindex", <<Loc2, <<" ">> \o Loc1 \o <<" ">> >>),
      Document(TRUE, "sitemapindex", <<Loc3, Loc1, Loc2>>) }

\* Lines of robots.txt.
SitemapLine(field, loc) == field \o <<":", " ">> \o loc
CommentLine == <<"#", " ">> \o SitemapLine(SitemapWord, Loc1)

\* What ROBOTS_URL may serve.
RobotsDocuments ==
    { Unserved,
      Document(TRUE, "text", <<>>),
      Document(TRUE, "text", <<CommentLine>>),
      Document(TRUE, "text", <<SitemapLine(<<"S">> \o Tail(SitemapWord), Loc1)>>),
      Document(TRUE, "text",
               << <<"S", "I", "T", "E", "M", "A", "P", ":">> \o Loc2,
                  CommentLine,
                  SitemapLine(SitemapWord, Loc1 \o <<" ">>) >>),
      Document(TRUE, "text",
               << SitemapLine(SitemapWord, Loc3),
                  SitemapLine(SitemapWord, Loc1),
                  SitemapLine(SitemapWord, Loc2) >>) }

\* What the sub-sitemaps may serve.
ChildDocuments ==
    { f \in [Locs -> { Unserved,
                       Document(TRUE, "html", <<>>),
                       Document(TRUE, "malformed", <<>>),
                       Document(TRUE, "sitemapindex", <<Loc1>>),
                       Document(TRUE, "urlset", << <<"a">>, <<"b">> >>),
                       Document(TRUE, "urlset", << <<"c">>, <<" ", "b">> >>),
                       Document(TRUE, "urlset", << <<"c">> >>) }] :
        /\ f[Loc1] \in { Unserved, Document(TRUE, "html", <<>>),
                         Document(TRUE, "urlset", << <<"a">>, <<"b">> >>) }
        /\ f[Loc2] \in { Document(TRUE, "malformed", <<>>),
                         Document(TRUE, "sitemapindex", <<Loc1>>),
                         Document(TRUE, "urlset", << <<"c">>, <<" ", "b">> >>) }
        /\ f[Loc3] = Document(TRUE, "urlset", << <<"c">> >>) }

InitDiscovery ==
    /\ pc = "disc_index"
    /\ web \in [index : IndexDocuments, robots : RobotsDocuments,
                child : ChildDocuments]
    /\ limit_sitemaps \in 1..MaxLimit
    /\ sitemap_urls = <<>> /\ collected = {} /\ via = ""
    /\ failing = {}
    /\ ts = 0 /\ calls = <<>>
    /\ IdleRun /\ IdleStore /\ IdlePolicy /\ IdleFetch

\* What get_urls_from_sitemaps and collect_urls_from_sitemaps never assign.
discoveryFrame ==
    <<ts, SHEET_ID, MAX_NEW_URLS_PER_RUN, existing_master, existing_revisar,
      new_urls, added_master, added_revisar, errors, telegram_items, upd,
      runs, http, log0, created, discovered, notified, raised, storeVars,
      polVars, calls, fetchVars, siteVars, limit_sitemaps>>

\* Lines 155-158: the index was fetched and parsed and lists sitemaps.
IndexListsSitemaps ==
    /\ web.index.served
    /\ ~parse_sitemap(web.index).raises
    /\ parse_sitemap(web.index).kind = "index"
    /\ parse_sitemap(web.index).items # <<>>

\* Lines 159-160: collect_urls_from_sitemaps(candidates[:limit_sitemaps]).
DiscoveryPrimary ==
    /\ pc = "disc_index"
    /\ IndexListsSitemaps
    /\ sitemap_urls' =
          Take(sitemap_candidates(parse_sitemap(web.index).items),
               limit_sitemaps)
    /\ via' = "index"
    /\ collected' = {} /\ idx' = 1
    /\ pc' = "disc_collect"
    /\ UNCHANGED <<all_urls, discoveryFrame>>

\* Lines 155-162: fetch or parse_sitemap raised, or the document is not an
\* index that lists sitemaps; the fallback is next.
DiscoveryPrimaryFails ==
    /\ pc = "disc_index"
    /\ ~IndexListsSitemaps
    /\ pc' = "disc_robots"
    /\ UNCHANGED <<all_urls, idx, sitemap_urls, collected, via,
                   discoveryFrame>>

\* Line 165: fetch(ROBOTS_URL) raises.
DiscoveryRobotsRaises ==
    /\ pc = "disc_robots"
    /\ ~web.robots.served
    /\ pc' = "disc_raised_fetch"
    /\ UNCHANGED <<all_urls, idx, sitemap_urls, collected, via,
                   discoveryFrame>>

\* Lines 166-168: robots.txt names no sitemap.
DiscoveryNoSitemaps ==
    /\ pc = "disc_robots"
    /\ web.robots.served
    /\ sitemaps_from_robots(web.robots.locs) = <<>>
    /\ pc' = "disc_raised_no_sitemaps"
    /\ UNCHANGED <<all_urls, idx, sitemap_urls, collected, via,
                   discoveryFrame>>

\* Line 170: collect_urls_from_sitemaps(sms[:limit_sitemaps]).
DiscoveryFallback ==
    /\ pc = "disc_robots"
    /\ web.robots.served
    /\ sitemaps_from_robots(web.robots.locs) # <<>>
    /\ sitemap_urls' = Take(sitemaps_from_robots(web.robots.locs),
                            limit_sitemaps)
    /\ via' = "robots"
    /\ collected' = {} /\ idx' = 1
    /\ pc' = "disc_collect"
    /\ UNCHANGED <<all_urls, discoveryFrame>>

\* What one sitemap adds to urls: nothing when fetch or parse_sitemap
\* raises or the document is no url set.
urls_of(doc) ==
    IF doc.served /\ ~parse_sitemap(doc).raises
                  /\ parse_sitemap(doc).kind = "urlset"
    THEN {parse_sitemap(doc).items[k] : k \in 1..Len(doc.locs)}
    ELSE {}

\* Lines 175-183: one iteration of the loop over sitemap_urls.
DiscoveryCollect ==
    /\ pc = "disc_collect"
    /\ idx <= Len(sitemap_urls)
    /\ collected' = collected \cup urls_of(web.child[sitemap_urls[idx]])
    /\ idx' = idx + 1
    /\ UNCHANGED <<pc, all_urls, sitemap_urls, via, discoveryFrame>>

\* Line 184: return sorted(urls).
DiscoveryReturn ==
    /\ pc = "disc_collect"
    /\ idx > Len(sitemap_urls)
    /\ all_urls' = Sorted(collected)
    /\ pc' = "disc_returned"
    /\ UNCHANGED <<idx, sitemap_urls, collected, via, discoveryFrame>>

NextDiscovery ==
    \/ DiscoveryPrimary \/ DiscoveryPrimaryFails
    \/ DiscoveryRobotsRaises \/ DiscoveryNoSitemaps \/ DiscoveryFallback
    \/ DiscoveryCollect \/ DiscoveryReturn

SpecDiscovery == InitDiscovery /\ [][NextDiscovery]_vars

-----------------------------------------------------------------------------
(* Properties of sitemap discovery (SpecDiscovery).                        *)

DiscoveryRaised == pc \in {"disc_raised_fetch", "disc_raised_no_sitemaps"}
DiscoveryEnded == pc = "disc_returned" \/ DiscoveryRaised

\* The sub-sitemap addresses the index yields: its entries that name a
\* sitemap, when it is served, parses and is an index.
IndexYield ==
    IF web.index.served /\ web.index.root = "sitemapindex"
    THEN SelectSeq(web.index.locs,
                   LAMBDA l : Contains(Lower(l), SitemapWord))
    ELSE <<>>

\* The addresses on the "Sitemap:" lines of robots.txt, in any spelling of
\* the field name, when robots.txt is served.
IsSitemapLine(line) ==
    Len(line) >= 8 /\ Lower(SubSeq(line, 1, 8)) = SitemapWord \o <<":">>

RobotsYield ==
    IF web.robots.served
    THEN LET lines == SelectSeq(web.robots.locs, IsSitemapLine)
         IN  [k \in 1..Len(lines) |->
                 Strip(SubSeq(lines[k], 9, Len(lines[k])))]
    ELSE <<>>

\* C11: get_urls_from_sitemaps fails whenever neither the sitemap index
\* nor the robots.txt fallback yields a sub-sitemap address to crawl, and it
\* never returns normally having selected zero sub-sitemaps.
C11_NoSitemapsError ==
    /\ (DiscoveryEnded /\ IndexYield = <<>> /\ RobotsYield = <<>>)
          => DiscoveryRaised
    /\ pc = "disc_returned" => sitemap_urls # <<>>

\* The fallback is due: the index was not fetched, did not parse or is not
\* an index.
FallbackDue == ~web.index.served \/ web.index.root # "sitemapindex"

\* The urls a served url-set sitemap lists; any other sub-sitemap has none.
UrlsetUrls(loc) ==
    IF web.child[loc].served /\ web.child[loc].root = "urlset"
    THEN {Strip(web.child[loc].locs[k]) : k \in 1..Len(web.child[loc].locs)}
    ELSE {}

\* The urls of the first limit_sitemaps sitemaps robots.txt names.
FallbackUrls ==
    UNION {UrlsetUrls(RobotsYield[k]) :
              k \in 1..Min(limit_sitemaps, Len(RobotsYield))}

StrictlySorted(s) == \A k \in 1..(Len(s) - 1) : StrLess(s[k], s[k + 1])

\* C12: when the sitemap index is not fetched, does not parse or is not an
\* index, discovery takes the sitemaps of the "Sitemap:" lines of
\* robots.txt, at most limit_sitemaps of them, and returns the sorted
\* duplicate-free union of the urls of the url sets among them; a
\* sub-sitemap that is not fetched or is no url set adds nothing and does
\* not fail the discovery.
C12_RobotsFallback ==
    /\ (FallbackDue /\ pc # "disc_index") => via # "index"
    /\ (FallbackDue /\ DiscoveryEnded /\ RobotsYield # <<>>)
          => pc = "disc_returned"
    /\ (FallbackDue /\ pc = "disc_returned")
          => /\ via = "robots"
             /\ sitemap_urls =
                   SubSeq(RobotsYield, 1,
                          Min(limit_sitemaps, Len(RobotsYield)))
             /\ StrictlySorted(all_urls)
             /\ SeqRange(all_urls) = FallbackUrls

\* C12 witness: the index is not served, robots.txt names more sitemaps
\* than the cap lets through, one of those read is not served and the
\* others' urls are returned.
C12_Witness ==
    /\ pc = "disc_returned"
    /\ ~web.index.served
    /\ Len(RobotsYield) > limit_sitemaps
    /\ Len(sitemap_urls) = 2
    /\ \E k \in 1..Len(sitemap_urls) : ~web.child[sitemap_urls[k]].served
    /\ all_urls # <<>>

====
